---- MODULE Spec2Model ----
(***************************************************************************)
(* Model of examples/generate_sample_data.py: the command entry point      *)
(* main(), the dataset assembler generate_sample_dataset(), the record     *)
(* writer create_sample_pickle_file() and the signal synthesizer           *)
(* generate_synthetic_acceleration_data().                                 *)
(*                                                                         *)
(* Spec       one run of main(): configuration loading, output directory,  *)
(*            the segment loop, the summary, the exit status.  A waveform  *)
(*            table is kept by its shape (columns, row count, first and    *)
(*            last index value); the quality label and the generation      *)
(*            timestamps of the metadata are left out.                     *)
(* SpecSynth  one call of the synthesizer, sample by sample.               *)
(* SpecTwice  two calls of the synthesizer with the same arguments and the *)
(*            random source seeded alike.                                  *)
(* SpecIndex  the index of one segment, timestamp by timestamp.            *)
(***************************************************************************)
EXTENDS Integers, Sequences, FiniteSets, TLC

VARIABLES
    pc,            \* position in main() / generate_sample_dataset()
    args,          \* parsed command line: output_dir, n_segments, case_name
    config,        \* value returned by load_config
    output_dir,    \* directory generate_sample_dataset writes to
    sensor_names,  \* resolved sensor list
    fs,            \* resolved sampling frequency
    segment,       \* loop variable of the segment loop
    disk,          \* output directory: file name -> segment record
    written,       \* names of the segment files, in the order they were opened
    summary_file,  \* <<>> or <<the summary written to dataset_summary.yaml>>
    exc,           \* exception being propagated ("none" when there is none)
    exc_segment,   \* loop index at which exc was raised (0 outside the loop)
    error_printed, \* main() printed "Error generating sample data: ..."
    main_result,   \* "running" | "return0" | "return1" | "escaped"
    \* one or two calls of generate_synthetic_acceleration_data
    s_pc,          \* position in the call
    s_step,        \* the step of the per-sensor construction executed last
    params,        \* the arguments: sensor_names, duration_seconds, fs
    now,           \* the wall clock, seconds
    call,          \* 1 for the first call, 2 for the second
    tape,          \* the values the random source has produced since seeding
    tape_pos,      \* next tape entry of a call that replays the source
    n_samples,     \* number of samples
    time_index,    \* the datetime index built at the start of the call
    sensor_i,      \* 0-based position of the current sensor
    signal,        \* samples of the current sensor
    before,        \* signal as it was when the last injection step began
    data,          \* finished signals, by sensor
    outlier,       \* draws and bounds of the last transient-anomaly step
    edge,          \* draws of the last edge-artifact step
    results,       \* what each finished call returned or raised
    \* the index of one segment of generate_sample_dataset, sample by sample
    idx_pc,        \* position in the loop body
    idx_input,     \* segment number and sampling frequency
    idx_index      \* the index of acceleration_data

runVars == <<pc, args, config, output_dir, sensor_names, fs, segment, disk,
             written, summary_file, exc, exc_segment, error_printed, main_result>>

synthVars == <<s_pc, s_step, params, now, call, tape, tape_pos, n_samples,
               time_index, sensor_i, signal, before, data, outlier, edge, results>>

indexVars == <<idx_pc, idx_input, idx_index>>

vars == <<runVars, synthVars, indexVars>>

-----------------------------------------------------------------------------
(* Bounds of the model.                                                    *)

\* largest --n-segments value tried; 31 segments reach 2024-01-02 00:00
MaxSegments == 31

-----------------------------------------------------------------------------
(* Python values of the configuration: None, dict, list, number, bool.     *)

None == [tag |-> "none"]
Dict(f) == [tag |-> "dict", d |-> f]
List(s) == [tag |-> "list", items |-> s]
Num(n) == [tag |-> "num", n |-> n]
Bool(b) == [tag |-> "bool", b |-> b]

EmptyMap == [k \in {} |-> None]
EmptyDict == Dict(EmptyMap)

\* obj.get(...) raises AttributeError unless obj is a dict
IsDict(v) == v.tag = "dict"

\* dict.get(key, default): the stored value when the key is present (None
\* included), the default only when the key is missing
Get(v, key, default) == IF key \in DOMAIN v.d THEN v.d[key] ELSE default

-----------------------------------------------------------------------------
(* datetime, timedelta and strftime.                                       *)

StepMinutes == 30
SegmentMinutes == 25
DefaultFs == 250
DefaultNSegments == 10

\* datetime(2024, 1, 1, 9, 0, 0)
AnchorTime == [Y |-> 2024, M |-> 1, D |-> 1, h |-> 9, m |-> 0, s |-> 0]

IsLeap(y) == (y % 4 = 0 /\ y % 100 # 0) \/ y % 400 = 0

DaysInMonth(y, mo) ==
    IF mo = 2 THEN (IF IsLeap(y) THEN 29 ELSE 28)
    ELSE IF mo \in {4, 6, 9, 11} THEN 30 ELSE 31

DaysInYear(y) == IF IsLeap(y) THEN 366 ELSE 365

RECURSIVE DaysBeforeMonth(_, _)
DaysBeforeMonth(y, mo) ==
    IF mo = 1 THEN 0 ELSE DaysBeforeMonth(y, mo - 1) + DaysInMonth(y, mo - 1)

\* minutes from the start of dt's year to dt
MinuteOfYear(dt) ==
    ((DaysBeforeMonth(dt.Y, dt.M) + dt.D - 1) * 24 + dt.h) * 60 + dt.m

RECURSIVE MonthOfDay(_, _, _)
\* the month and day of 0-based day number d of year y, searching from month mo
MonthOfDay(y, mo, d) ==
    IF d < DaysInMonth(y, mo) THEN [M |-> mo, D |-> d + 1]
    ELSE MonthOfDay(y, mo + 1, d - DaysInMonth(y, mo))

RECURSIVE FromMinuteOfYear(_, _, _)
\* the datetime mins minutes after the start of year y, carrying into later years
FromMinuteOfYear(y, mins, sec) ==
    IF mins >= DaysInYear(y) * 1440
    THEN FromMinuteOfYear(y + 1, mins - DaysInYear(y) * 1440, sec)
    ELSE LET md == MonthOfDay(y, 1, mins \div 1440)
         IN  [Y |-> y, M |-> md.M, D |-> md.D,
              h |-> (mins % 1440) \div 60, m |-> mins % 60, s |-> sec]

\* dt + timedelta(minutes=k), k >= 0
AddMinutes(dt, k) == FromMinuteOfYear(dt.Y, MinuteOfYear(dt) + k, dt.s)

Digits == <<"0", "1", "2", "3", "4", "5", "6", "7", "8", "9">>

RECURSIVE DecChars(_)
\* str(n) for n >= 0: decimal digits, no padding
DecChars(n) ==
    IF n < 10 THEN <<Digits[n + 1]>>
    ELSE DecChars(n \div 10) \o <<Digits[(n % 10) + 1]>>

RECURSIVE PadChars(_, _)
\* n in decimal, zero-padded on the left to at least w characters
PadChars(n, w) ==
    IF w <= 1 THEN DecChars(n)
    ELSE IF Len(DecChars(n)) >= w THEN DecChars(n)
    ELSE <<"0">> \o PadChars(n, w - 1)

\* StrfTime without zero padding of the fields
StrfTimeUnpadded(dt) ==
    DecChars(dt.Y) \o DecChars(dt.M) \o DecChars(dt.D)
        \o DecChars(dt.h) \o DecChars(dt.m) \o DecChars(dt.s)

\* dt.strftime('%Y%m%d%H%M%S')
StrfTime(dt) ==
    PadChars(dt.Y, 4) \o PadChars(dt.M, 2) \o PadChars(dt.D, 2)
        \o PadChars(dt.h, 2) \o PadChars(dt.m, 2) \o PadChars(dt.s, 2)

\* f"{case_name}_segment{segment}_{start_str}_{end_str}.pickle"
FileName(case_name, seg, start_str, end_str) ==
    case_name \o <<"_", "s", "e", "g", "m", "e", "n", "t">> \o DecChars(seg)
        \o <<"_">> \o start_str \o <<"_">> \o end_str
        \o <<".", "p", "i", "c", "k", "l", "e">>

\* BaseTime with the loop index taken as 0-based
BaseTimeFromSegment(seg) == AddMinutes(AnchorTime, seg * StepMinutes)

\* start of segment seg: datetime(2024, 1, 1, 9, 0, 0) + timedelta(minutes=(segment-1) * 30)
BaseTime(seg) == AddMinutes(AnchorTime, (seg - 1) * StepMinutes)

\* end of the segment that starts at start_time
EndTime(start_time) == AddMinutes(start_time, SegmentMinutes)

-----------------------------------------------------------------------------
(* The waveform table by its shape.                                        *)

\* NSamples with the duration taken as seconds
NSamplesPerMinute(duration_minutes, freq) == duration_minutes * freq

\* n_samples = int(duration_minutes * 60 * fs)
NSamples(duration_minutes, freq) == duration_minutes * 60 * freq

\* generate_synthetic_acceleration_data: one column of n_samples rows per sensor
TableShape(names, duration_minutes, freq) ==
    [columns |-> names, n_rows |-> NSamples(duration_minutes, freq)]

\* the table after acceleration_data.index = pd.date_range(start, end, periods=len(...))
Retimed(table, start_time, end_time) ==
    [columns |-> table.columns, n_rows |-> table.n_rows,
     index_first |-> start_time, index_last |-> end_time]

-----------------------------------------------------------------------------
(* Inputs of a run: the command line and the configuration file.           *)

\* a directory: absolute or relative, and its components
Dir(abs, parts) == [tag |-> "path", abs |-> abs, parts |-> parts]

\* args.output_dir when --output-dir is not given
NoDir == None

\* --n-segments values tried (argparse default 10)
SegmentCounts == {0, 1, 2, DefaultNSegments, MaxSegments}

\* --case-name values tried, as character sequences
CaseNames == {<<"t">>}

ArgSets ==
    [output_dir : {NoDir, Dir(FALSE, <<"out">>)},
     n_segments : SegmentCounts,
     case_name  : CaseNames]

OptEntry(key, vals) == {EmptyMap} \cup {key :> v : v \in vals}

\* section 'oma': absent, empty ("oma:" loads as None), {} or with 'geometry'
OmaValues ==
    {None, EmptyDict, Dict("geometry" :> None), Dict("geometry" :> EmptyDict),
     Dict("geometry" :> Dict("sensor_names" :> List(<<"s1", "s2">>)))}

SignalValues == {None, EmptyDict, Dict("sampling_frequency" :> Num(10))}

PathsValues ==
    {None,
     Dict("use_relative_paths" :> Bool(FALSE)
            @@ "input_data_dir" :> Dir(TRUE, <<"srv", "raw">>))}

\* what yaml.safe_load can return: None for an empty file, else a mapping
Configs ==
    {None} \cup
    {Dict(a @@ b @@ c) : a \in OptEntry("oma", OmaValues),
                         b \in OptEntry("signal_processing", SignalValues),
                         c \in OptEntry("paths", PathsValues)}

DefaultSensorNames == <<"sensor_1", "sensor_2", "sensor_3", "sensor_4">>

-----------------------------------------------------------------------------
(* main() and generate_sample_dataset().                                   *)

\* no run of main() is modelled
RunIdle ==
    /\ pc = "idle"
    /\ args = [output_dir |-> NoDir, n_segments |-> 0, case_name |-> <<>>]
    /\ config = None
    /\ output_dir = NoDir
    /\ sensor_names = <<>>
    /\ fs = 0
    /\ segment = 0
    /\ disk = [n \in {} |-> None]
    /\ written = <<>>
    /\ summary_file = <<>>
    /\ exc = "none"
    /\ exc_segment = 0
    /\ error_printed = FALSE
    /\ main_result = "running"

\* no call of the synthesizer is modelled
SynthIdle ==
    /\ s_pc = "idle"
    /\ s_step = "none"
    /\ params = [sensor_names |-> <<>>, duration_seconds |-> 0, fs |-> 0]
    /\ now = 0
    /\ call = 0
    /\ tape = <<>>
    /\ tape_pos = 0
    /\ n_samples = 0
    /\ time_index = <<>>
    /\ sensor_i = 0
    /\ signal = <<>>
    /\ before = <<>>
    /\ data = [n \in {} |-> <<>>]
    /\ outlier = [triggered |-> FALSE]
    /\ edge = [triggered |-> FALSE]
    /\ results = <<>>

\* no segment index is modelled
IndexIdle ==
    /\ idx_pc = "idle"
    /\ idx_input = [segment |-> 0, fs |-> 0]
    /\ idx_index = <<>>

\* main() after parser.parse_args()
RunInit ==
    /\ pc = "load_config"
    /\ args \in ArgSets
    /\ config = None
    /\ output_dir = NoDir
    /\ sensor_names = <<>>
    /\ fs = 0
    /\ segment = 0
    /\ disk = [n \in {} |-> None]
    /\ written = <<>>
    /\ summary_file = <<>>
    /\ exc = "none"
    /\ exc_segment = 0
    /\ error_printed = FALSE
    /\ main_result = "running"

Init == RunInit /\ SynthIdle /\ IndexIdle

\* an exception raised outside the try block of main() leaves main()
Escape(e) ==
    /\ exc' = e
    /\ main_result' = "escaped"
    /\ pc' = "exit"

\* an exception raised inside the try block of main() reaches its handler
Raise(e, seg) ==
    /\ exc' = e
    /\ exc_segment' = seg
    /\ pc' = "except"

\* config = load_config(args.config)
LoadConfig ==
    /\ pc = "load_config"
    /\ \/ /\ Escape("OSError")
          /\ UNCHANGED config
       \/ /\ \E c \in Configs : config' = c
          /\ pc' = "resolve_output_dir"
          /\ UNCHANGED <<exc, main_result>>
    /\ UNCHANGED <<synthVars, indexVars>>
    /\ UNCHANGED <<args, output_dir, sensor_names, fs, segment, disk, written,
                   summary_file, exc_segment, error_printed>>

\* the value of output_dir when --output-dir is not given; None when a .get
\* is applied to None (AttributeError)
ConfiguredDir(cfg) ==
    IF ~IsDict(cfg) THEN None
    ELSE LET paths == Get(cfg, "paths", EmptyDict)
         IN  IF ~IsDict(paths) THEN None
             ELSE LET rel == Get(paths, "use_relative_paths", Bool(TRUE))
                      d   == Get(paths, "input_data_dir", Dir(FALSE, <<"data", "raw">>))
                  IN  IF rel.b /\ ~d.abs
                      THEN Dir(TRUE, <<"cwd">> \o d.parts)
                      ELSE d

ResolveOutputDir ==
    /\ pc = "resolve_output_dir"
    /\ IF args.output_dir # NoDir
       THEN /\ output_dir' = args.output_dir
            /\ pc' = "read_config"
            /\ UNCHANGED <<exc, main_result>>
       ELSE IF ConfiguredDir(config) = None
       THEN /\ Escape("AttributeError")
            /\ UNCHANGED output_dir
       ELSE /\ output_dir' = ConfiguredDir(config)
            /\ pc' = "read_config"
            /\ UNCHANGED <<exc, main_result>>
    /\ UNCHANGED <<synthVars, indexVars>>
    /\ UNCHANGED <<args, config, sensor_names, fs, segment, disk, written,
                   summary_file, exc_segment, error_printed>>

\* the sensor list and sampling frequency read from the configuration;
\* ok is FALSE when a .get is applied to None (AttributeError)
ReadSettings(cfg) ==
    LET oma_config == IF IsDict(cfg) THEN Get(cfg, "oma", EmptyDict) ELSE None
        geometry == IF IsDict(oma_config) THEN Get(oma_config, "geometry", EmptyDict) ELSE None
        names    == IF IsDict(geometry)
                    THEN Get(geometry, "sensor_names", List(DefaultSensorNames))
                    ELSE None
        signal_config == IF IsDict(cfg) THEN Get(cfg, "signal_processing", EmptyDict)
                    ELSE None
        freq     == IF IsDict(signal_config)
                    THEN Get(signal_config, "sampling_frequency", Num(DefaultFs))
                    ELSE None
    IN  [ok |-> IsDict(cfg) /\ IsDict(oma_config) /\ IsDict(geometry) /\ IsDict(signal_config),
         sensor_names |-> names, fs |-> freq]

ReadConfig ==
    /\ pc = "read_config"
    /\ LET r == ReadSettings(config)
       IN  IF r.ok
           THEN /\ sensor_names' = r.sensor_names.items
                /\ fs' = r.fs.n
                /\ pc' = "mkdir"
                /\ UNCHANGED <<exc, exc_segment>>
           ELSE /\ Raise("AttributeError", 0)
                /\ UNCHANGED <<sensor_names, fs>>
    /\ UNCHANGED <<synthVars, indexVars>>
    /\ UNCHANGED <<args, config, output_dir, segment, disk, written,
                   summary_file, error_printed, main_result>>

\* output_path.mkdir(parents=True, exist_ok=True)
MakeOutputDir ==
    /\ pc = "mkdir"
    /\ \/ /\ pc' = "loop"
          /\ segment' = 1
          /\ UNCHANGED <<exc, exc_segment>>
       \/ /\ Raise("OSError", 0)
          /\ UNCHANGED segment
    /\ UNCHANGED <<synthVars, indexVars>>
    /\ UNCHANGED <<args, config, output_dir, sensor_names, fs, disk, written,
                   summary_file, error_printed, main_result>>

\* the record of segment seg as pickled by create_sample_pickle_file
SegmentRecord(seg) ==
    LET start_time == BaseTime(seg)
        end_time   == EndTime(start_time)
        table      == TableShape(sensor_names, SegmentMinutes, fs)
    IN  [complete |-> TRUE,
         accelerations |-> Retimed(table, start_time, end_time),
         metadata |-> [sampling_frequency |-> fs,
                       segment_number |-> seg,
                       start_time |-> start_time,
                       end_time |-> end_time,
                       synthetic |-> TRUE]]

\* the file name of segment seg
SegmentFileName(seg) ==
    FileName(args.case_name, seg, StrfTime(BaseTime(seg)),
             StrfTime(EndTime(BaseTime(seg))))

\* open(output_path, 'wb') creates or truncates the file; pickle.dump fills it
WriteFile(name, content) == (name :> content) @@ disk

\* one iteration of the segment loop
GenerateSegment ==
    /\ pc = "loop"
    /\ segment <= args.n_segments
    /\ \/ \* the synthesizer raises: nothing is opened
          /\ Raise("GenerationError", segment)
          /\ UNCHANGED <<disk, written, segment>>
       \/ \* open() raises: no file
          /\ Raise("OSError", segment)
          /\ UNCHANGED <<disk, written, segment>>
       \/ \* pickle.dump raises after open(): a truncated file is left
          /\ Raise("PicklingError", segment)
          /\ disk' = WriteFile(SegmentFileName(segment), [complete |-> FALSE])
          /\ written' = Append(written, SegmentFileName(segment))
          /\ UNCHANGED segment
       \/ /\ disk' = WriteFile(SegmentFileName(segment), SegmentRecord(segment))
          /\ written' = Append(written, SegmentFileName(segment))
          /\ segment' = segment + 1
          /\ UNCHANGED <<pc, exc, exc_segment>>
    /\ UNCHANGED <<synthVars, indexVars>>
    /\ UNCHANGED <<args, config, output_dir, sensor_names, fs, summary_file,
                   error_printed, main_result>>

\* the summary dumped to dataset_summary.yaml
Summary ==
    [dataset_info |-> [n_segments |-> args.n_segments,
                       case_name |-> args.case_name,
                       sensors |-> sensor_names,
                       sampling_frequency |-> fs,
                       segment_duration_minutes |-> SegmentMinutes]]

\* WriteSummary placed inside the loop body: it does not wait for the last segment
WriteSummaryInLoop ==
    /\ pc = "loop"
    /\ \/ /\ Raise("OSError", 0)
          /\ UNCHANGED summary_file
       \/ /\ summary_file' = <<Summary>>
          /\ pc' = "return"
          /\ UNCHANGED <<exc, exc_segment>>
    /\ UNCHANGED <<synthVars, indexVars>>
    /\ UNCHANGED <<args, config, output_dir, sensor_names, fs, segment, disk,
                   written, error_printed, main_result>>

\* after the loop: the summary file
WriteSummary ==
    /\ pc = "loop"
    /\ segment > args.n_segments
    /\ \/ /\ Raise("OSError", 0)
          /\ UNCHANGED summary_file
       \/ /\ summary_file' = <<Summary>>
          /\ pc' = "return"
          /\ UNCHANGED <<exc, exc_segment>>
    /\ UNCHANGED <<synthVars, indexVars>>
    /\ UNCHANGED <<args, config, output_dir, sensor_names, fs, segment, disk,
                   written, error_printed, main_result>>

\* generate_sample_dataset returned: main() prints the closing lines, returns 0
ReturnSuccess ==
    /\ pc = "return"
    /\ main_result' = "return0"
    /\ pc' = "exit"
    /\ UNCHANGED <<synthVars, indexVars>>
    /\ UNCHANGED <<args, config, output_dir, sensor_names, fs, segment, disk,
                   written, summary_file, exc, exc_segment, error_printed>>

\* except Exception as e: print the error, return 1
HandleException ==
    /\ pc = "except"
    /\ error_printed' = TRUE
    /\ main_result' = "return1"
    /\ pc' = "exit"
    /\ UNCHANGED <<synthVars, indexVars>>
    /\ UNCHANGED <<args, config, output_dir, sensor_names, fs, segment, disk,
                   written, summary_file, exc, exc_segment>>

Next ==
    \/ LoadConfig
    \/ ResolveOutputDir
    \/ ReadConfig
    \/ MakeOutputDir
    \/ GenerateSegment
    \/ WriteSummary
    \/ ReturnSuccess
    \/ HandleException

Spec == Init /\ [][Next]_vars

-----------------------------------------------------------------------------
(* Properties of a run (specification Spec).                               *)

\* minutes from 2024-01-01 00:00 to dt, read off dt's calendar fields
MinutesSince2024(dt) ==
    LET daysBefore == [mo \in 1..12 |->
                     CASE mo = 1 -> 0   [] mo = 2 -> 31  [] mo = 3 -> 60
                       [] mo = 4 -> 91  [] mo = 5 -> 121 [] mo = 6 -> 152
                       [] mo = 7 -> 182 [] mo = 8 -> 213 [] mo = 9 -> 244
                       [] mo = 10 -> 274 [] mo = 11 -> 305 [] mo = 12 -> 335]
    IN  ((daysBefore[dt.M] + dt.D - 1) * 24 + dt.h) * 60 + dt.m

ValidClock(dt) ==
    /\ dt.Y = 2024 /\ dt.M \in 1..12 /\ dt.D \in 1..31
    /\ dt.h \in 0..23 /\ dt.m \in 0..59 /\ dt.s = 0

\* the segment records on disk that were written completely
CompleteFiles == {n \in DOMAIN disk : disk[n].complete}

\* the complete record of segment number k, if any
FilesOfSegment(k) == {n \in CompleteFiles : disk[n].metadata.segment_number = k}

RunSucceeded == pc = "exit" /\ main_result = "return0"

\* C1: every written segment s ends 25 minutes after its start and starts
\* (s-1) x 30 minutes after the anchor 2024-01-01 09:00:00, so that
\* consecutive segments start 30 minutes apart and never overlap.
C1_SegmentTiming ==
    /\ \A n \in CompleteFiles :
         LET md == disk[n].metadata
         IN  /\ ValidClock(md.start_time) /\ ValidClock(md.end_time)
             /\ MinutesSince2024(md.end_time) = MinutesSince2024(md.start_time) + 25
             /\ MinutesSince2024(md.start_time) = 540 + (md.segment_number - 1) * 30
    /\ \A n1, n2 \in CompleteFiles :
         disk[n2].metadata.segment_number = disk[n1].metadata.segment_number + 1
         => /\ MinutesSince2024(disk[n2].metadata.start_time)
                 = MinutesSince2024(disk[n1].metadata.start_time) + 30
            /\ MinutesSince2024(disk[n2].metadata.start_time)
                 > MinutesSince2024(disk[n1].metadata.end_time)

\* C1 witness: segments on both sides of midnight have been written.
C1_Witness ==
    /\ FilesOfSegment(30) # {} /\ FilesOfSegment(31) # {}
    /\ \E n \in FilesOfSegment(31) : disk[n].metadata.start_time.D = 2

\* state part of C2: files appear one per index, in increasing order; the
\* summary exists only once all segments are written; a failed run has no
\* summary and nothing beyond the failing segment; a successful run has
\* exactly n_segments segment files and the summary.
C2_State ==
    /\ \A i \in 1..Len(written) :
         /\ written[i] \in DOMAIN disk
         /\ disk[written[i]].complete
              => disk[written[i]].metadata.segment_number = i
         /\ ~disk[written[i]].complete => (i = Len(written) /\ exc # "none")
    /\ Len(written) <= args.n_segments
    /\ summary_file # <<>>
         => /\ Len(written) = args.n_segments
            /\ \A i \in 1..Len(written) : disk[written[i]].complete
    /\ (exc # "none" /\ exc_segment >= 1)
         => /\ summary_file = <<>>
            /\ Len(written) \in {exc_segment - 1, exc_segment}
            /\ \A i \in 1..(exc_segment - 1) : disk[written[i]].complete
    /\ RunSucceeded
         => /\ Cardinality(CompleteFiles) = args.n_segments
            /\ Cardinality(DOMAIN disk) = args.n_segments
            /\ Len(summary_file) = 1

\* step part of C2: a file once written completely is never changed or
\* removed, and after an exception nothing is written any more (no retry).
C2_Step ==
    /\ \A n \in CompleteFiles : n \in DOMAIN disk' /\ disk'[n] = disk[n]
    /\ exc # "none"
         => /\ disk' = disk /\ written' = written
            /\ summary_file' = summary_file /\ exc' = exc

C3_MainReportsEveryException ==
    pc = "exit"
    => \/ main_result = "return0" /\ exc = "none"
       \/ main_result = "return1" /\ exc # "none" /\ error_printed

\* the value of a decimal digit character (10 for any other character)
DigitValue(c) ==
    IF \E d \in 0..9 : Digits[d + 1] = c
    THEN CHOOSE d \in 0..9 : Digits[d + 1] = c
    ELSE 10

IsDecimal(chars) ==
    Len(chars) >= 1 /\ \A i \in 1..Len(chars) : DigitValue(chars[i]) < 10

RECURSIVE ParseDec(_)
\* the number a sequence of decimal digits denotes
ParseDec(chars) ==
    IF Len(chars) = 0 THEN 0
    ELSE ParseDec(SubSeq(chars, 1, Len(chars) - 1)) * 10
           + DigitValue(chars[Len(chars)])

\* the datetime a YYYYMMDDHHMMSS stamp of 14 digits denotes
ParseStamp(chars) ==
    [Y |-> ParseDec(SubSeq(chars, 1, 4)),  M |-> ParseDec(SubSeq(chars, 5, 6)),
     D |-> ParseDec(SubSeq(chars, 7, 8)),  h |-> ParseDec(SubSeq(chars, 9, 10)),
     m |-> ParseDec(SubSeq(chars, 11, 12)), s |-> ParseDec(SubSeq(chars, 13, 14))]

\* name reads {case}_segment{N}_{start}_{end}.pickle with N the un-padded
\* decimal k and start, end the 14-digit stamps of the boundaries of segment k
WellFormedName(name, case, k) ==
    LET c      == Len(case)
        nd     == Len(name) - c - 8 - 1 - 14 - 1 - 14 - 7
        num    == SubSeq(name, c + 9, c + 8 + nd)
        p1     == c + 8 + nd
        start  == SubSeq(name, p1 + 2, p1 + 15)
        end    == SubSeq(name, p1 + 17, p1 + 30)
    IN  /\ nd >= 1
        /\ SubSeq(name, 1, c) = case
        /\ SubSeq(name, c + 1, c + 8) = <<"_", "s", "e", "g", "m", "e", "n", "t">>
        /\ IsDecimal(num) /\ num[1] # "0" /\ ParseDec(num) = k
        /\ name[p1 + 1] = "_" /\ name[p1 + 16] = "_"
        /\ IsDecimal(start) /\ IsDecimal(end)
        /\ ValidClock(ParseStamp(start)) /\ ValidClock(ParseStamp(end))
        /\ MinutesSince2024(ParseStamp(start)) = 540 + (k - 1) * 30
        /\ MinutesSince2024(ParseStamp(end)) = 540 + (k - 1) * 30 + 25
        /\ SubSeq(name, p1 + 31, Len(name)) = <<".", "p", "i", "c", "k", "l", "e">>

\* C4: the segment file names of a run are pairwise distinct and the i-th is
\* {case_name}_segment{i}_{start}_{end}.pickle, i un-padded, start and end the
\* YYYYMMDDHHMMSS stamps of segment i; no write replaces an earlier file.
C4_FileNames ==
    /\ \A i, j \in 1..Len(written) : i # j => written[i] # written[j]
    /\ Cardinality(DOMAIN disk) = Len(written)
    /\ \A i \in 1..Len(written) : WellFormedName(written[i], args.case_name, i)
    /\ \A n \in CompleteFiles :
         LET md == disk[n].metadata
         IN  n = args.case_name \o <<"_", "s", "e", "g", "m", "e", "n", "t">>
                   \o DecChars(md.segment_number) \o <<"_">>
                   \o SubSeq(n, Len(n) - 35, Len(n) - 22) \o <<"_">>
                   \o SubSeq(n, Len(n) - 20, Len(n) - 7)
                   \o <<".", "p", "i", "c", "k", "l", "e">>
             /\ ParseStamp(SubSeq(n, Len(n) - 35, Len(n) - 22)) = md.start_time
             /\ ParseStamp(SubSeq(n, Len(n) - 20, Len(n) - 7)) = md.end_time

\* C4 witness: a run that wrote segments with one- and two-digit indices, the
\* last one starting after midnight.
C4_Witness ==
    /\ Len(written) = 31
    /\ written[31] = <<"t", "_", "s", "e", "g", "m", "e", "n", "t", "3", "1", "_",
                       "2", "0", "2", "4", "0", "1", "0", "2", "0", "0", "0", "0", "0", "0", "_",
                       "2", "0", "2", "4", "0", "1", "0", "2", "0", "0", "2", "5", "0", "0",
                       ".", "p", "i", "c", "k", "l", "e">>

\* the end-to-end scenario: sensors s1, s2 at 10 Hz, two segments, case "t"
C5_Scenario ==
    /\ sensor_names = <<"s1", "s2">> /\ fs = 10
    /\ args.n_segments = 2 /\ args.case_name = <<"t">>

\* C5 as stated: in the scenario the run leaves 2 segment files and a summary
\* with n_segments = 2, and every table has 600 rows (1 minute at 10 Hz).
C5_AsStated ==
    (RunSucceeded /\ C5_Scenario)
    => /\ Cardinality(DOMAIN disk) = 2 /\ Len(summary_file) = 1
       /\ summary_file[1].dataset_info.n_segments = 2
       /\ \A n \in DOMAIN disk :
            disk[n].complete /\ disk[n].accelerations.n_rows = 600

\* C5 amended: a successful run leaves n_segments segment files and a summary
\* whose n_segments is that number; every table has the configured sensors as
\* columns and 25 x 60 x fs rows (15000 in the scenario), the segment
\* duration being fixed at 25 minutes.
C5_EndToEnd ==
    RunSucceeded
    => /\ Cardinality(DOMAIN disk) = args.n_segments /\ Len(summary_file) = 1
       /\ summary_file[1].dataset_info.n_segments = Cardinality(DOMAIN disk)
       /\ \A n \in DOMAIN disk :
            /\ disk[n].complete
            /\ disk[n].accelerations.columns = sensor_names
            /\ disk[n].accelerations.n_rows = 1500 * fs
            /\ C5_Scenario => disk[n].accelerations.n_rows = 15000
       /\ C5_Scenario => Cardinality(DOMAIN disk) = 2

\* C5 witness: the scenario has run to its end.
C5_Witness == RunSucceeded /\ C5_Scenario /\ Cardinality(CompleteFiles) = 2

\* the configuration names no sensor list
LacksSensorNames(cfg) ==
    ~ (/\ cfg.tag = "dict" /\ "oma" \in DOMAIN cfg.d
       /\ cfg.d["oma"].tag = "dict" /\ "geometry" \in DOMAIN cfg.d["oma"].d
       /\ cfg.d["oma"].d["geometry"].tag = "dict"
       /\ "sensor_names" \in DOMAIN cfg.d["oma"].d["geometry"].d)

\* the configuration names no sampling frequency
LacksSamplingFrequency(cfg) ==
    ~ (/\ cfg.tag = "dict" /\ "signal_processing" \in DOMAIN cfg.d
       /\ cfg.d["signal_processing"].tag = "dict"
       /\ "sampling_frequency" \in DOMAIN cfg.d["signal_processing"].d)

\* generate_sample_dataset has read the configuration (lines 160-166)
SettingsRead ==
    \/ pc \in {"mkdir", "loop", "return", "except"}
    \/ pc = "exit" /\ main_result # "escaped"

\* C7: however the sensor list or the sampling frequency is absent from the
\* configuration, reading it does not fail and yields the defaults
\* sensor_1..sensor_4 and 250 Hz.
C7_DefaultsWhenAbsent ==
    SettingsRead
    => /\ (LacksSensorNames(config) \/ LacksSamplingFrequency(config))
            => exc # "AttributeError"
       /\ LacksSensorNames(config)
            => sensor_names = <<"sensor_1", "sensor_2", "sensor_3", "sensor_4">>
       /\ LacksSamplingFrequency(config) => fs = 250

-----------------------------------------------------------------------------
(* generate_synthetic_acceleration_data, sample by sample (specifications  *)
(* SpecSynth: one call; SpecTwice: two calls with the random source seeded *)
(* alike).  Sample values are fixed-point numbers in units of 0.001.  The  *)
(* sum of the modal responses, the trend and the noise (lines 64-85) is    *)
(* taken as one drawn waveform: its values are sines of real numbers,      *)
(* which the claims below do not depend on.  Every random draw is a        *)
(* nondeterministic choice recorded on the tape; a second call with the    *)
(* same seed reads the same values back.                                   *)

\* the sampling rates tried are the first MaxRates entries of Rates
MaxRates == 2

\* sampling rates in Hz whose period 1000/fs ms is a whole number of ns
Rates == <<1, 2, 4, 5>>

SynthRates == {Rates[r] : r \in 1..MaxRates}

\* durations tried, in seconds (duration_minutes * 60)
SynthDurations == {10, 25, 50}

SynthParams ==
    [sensor_names : {<<"s1">>}, duration_seconds : SynthDurations, fs : SynthRates]

\* two calls: short signals, one or two sensors
TwiceParams ==
    [sensor_names : {<<"s1">>, <<"s1", "s2">>}, duration_seconds : {10}, fs : {1}]
        \cup [sensor_names : {<<"s1">>}, duration_seconds : {25}, fs : {2}]

\* wall-clock readings, in seconds: 09:00:30, 09:00:55, 09:01:10
Clocks == {32430, 32455, 32470}

\* drawn waveforms, step amplitudes (0.3 * randn), ramp gains (randn) and
\* target means (uniform(-1.05, -0.95)) tried
Patterns == {0, 1}
Shifts == {-300, 300}
Gains == {-1, 2}
TargetMeans == {-1000}

Timestamp(sec, ns) == [sec |-> sec, ns |-> ns]

\* datetime.now().replace(second=0, microsecond=0)
TruncateToMinute(t) == t - (t % 60)

\* pd.date_range(start=start_time, periods=n_samples, freq=f'{1000/fs}ms')
DateRangeFreq(start_sec, periods, freq) ==
    [k \in 1..periods |->
        Timestamp(start_sec + (k - 1) \div freq,
                  ((k - 1) % freq) * (1000000000 \div freq))]

\* int(percent/100 * n): the float product truncates to the exact floor for
\* the factors 0.01, 0.02, 0.05, 0.1 and 0.8 used here
IntOf(percent, n) == (percent * n) \div 100

\* RandInt with the upper bound included, as random.randint has it
RandIntInclusive(low, high) == low..high

\* the values np.random.randint(low, high) can return; none when low >= high,
\* where it raises ValueError
RandInt(low, high) == low..(high - 1)

Min(a, b) == IF a <= b THEN a ELSE b

\* the drawn waveform of the sensor at position pos: modal sum + trend + noise
Wave(p, pos, k) == ((k * (p + 2) + pos * 3) % 11) * 10 - 50

\* np.linspace(a, b, num)
LinSpace(a, b, num) ==
    [j \in 1..num |-> IF num = 1 THEN a ELSE a + ((b - a) * (j - 1)) \div (num - 1)]

\* signal[lo:hi] += addend for 0 <= lo <= hi <= len(signal): numpy adds
\* elementwise when the lengths agree, broadcasts a single element, and raises
\* ValueError otherwise
InPlaceAdd(sig, lo, hi, addend) ==
    [ok |-> Len(addend) = hi - lo \/ Len(addend) = 1,
     sig |-> [k \in 1..Len(sig) |->
                IF k > lo /\ k <= hi /\ (Len(addend) = hi - lo \/ Len(addend) = 1)
                THEN sig[k] + (IF Len(addend) = 1 THEN addend[1] ELSE addend[k - lo])
                ELSE sig[k]]]

\* the 0-based start of signal[-e:]: -0 is 0, the start of the signal
TailStart(n, e) == IF e = 0 THEN 0 ELSE n - e

\* outlier_end = min(outlier_start + outlier_duration, n_samples)
OutlierEnd(start, duration, n) == Min(start + duration, n)

\* what the transient-anomaly step can draw for n samples
OutlierDraws(n) ==
    LET starts    == RandInt(IntOf(10, n), IntOf(80, n))
        durations == RandInt(IntOf(1, n), IntOf(5, n))
    IN  {[triggered |-> FALSE, failed |-> FALSE, start |-> 0, duration |-> 0, shift |-> 0]}
        \cup (IF starts = {} \/ durations = {}
              THEN {[triggered |-> TRUE, failed |-> TRUE, start |-> 0, duration |-> 0,
                     shift |-> 0]}
              ELSE {[triggered |-> TRUE, failed |-> FALSE, start |-> a, duration |-> b,
                     shift |-> c] : a \in starts, b \in durations, c \in Shifts})

\* what the edge-artifact step can draw
EdgeDraws ==
    {[triggered |-> FALSE, start_edge |-> FALSE, end_edge |-> FALSE,
      start_gain |-> 0, end_gain |-> 0]}
    \cup {[triggered |-> TRUE, start_edge |-> a, end_edge |-> b,
           start_gain |-> IF a THEN x ELSE 0, end_gain |-> IF b THEN y ELSE 0] :
             a \in BOOLEAN, b \in BOOLEAN, x \in Gains, y \in Gains}

Scaled(ramp, gain) == [j \in 1..Len(ramp) |-> ramp[j] * gain]

\* the edge-artifact step on sig with draws d
EdgeApply(sig, d) ==
    LET n            == Len(sig)
        edge_samples == IntOf(2, n)
        head == IF d.start_edge
                THEN InPlaceAdd(sig, 0, edge_samples,
                                Scaled(LinSpace(2000, 0, edge_samples), d.start_gain))
                ELSE [ok |-> TRUE, sig |-> sig]
        tail == IF d.end_edge
                THEN InPlaceAdd(head.sig, TailStart(n, edge_samples), n,
                                Scaled(LinSpace(0, -1500, edge_samples), d.end_gain))
                ELSE [ok |-> TRUE, sig |-> head.sig]
    IN  [ok |-> head.ok /\ tail.ok, sig |-> tail.sig]

RECURSIVE SumTo(_, _)
SumTo(sig, k) == IF k = 0 THEN 0 ELSE SumTo(sig, k - 1) + sig[k]

\* signal - np.mean(signal) + target_mean
Recentered(sig, target_mean) ==
    LET mean == SumTo(sig, Len(sig)) \div Len(sig)
    IN  [k \in 1..Len(sig) |-> sig[k] - mean + target_mean]

\* the random source yields d: a fresh value on the first call, the recorded
\* one on a call that was seeded alike
Drawn(d) ==
    IF call = 1
    THEN /\ tape' = Append(tape, d)
         /\ tape_pos' = tape_pos
    ELSE /\ tape_pos <= Len(tape)
         /\ d = tape[tape_pos]
         /\ tape' = tape
         /\ tape_pos' = tape_pos + 1

SynthInit(paramSet, clockSet) ==
    /\ RunIdle /\ IndexIdle
    /\ s_pc = "begin"
    /\ s_step = "none"
    /\ params \in paramSet
    /\ now \in clockSet
    /\ call = 1
    /\ tape = <<>>
    /\ tape_pos = 1
    /\ n_samples = 0
    /\ time_index = <<>>
    /\ sensor_i = 0
    /\ signal = <<>>
    /\ before = <<>>
    /\ data = [n \in {} |-> <<>>]
    /\ outlier = [triggered |-> FALSE]
    /\ edge = [triggered |-> FALSE]
    /\ results = <<>>

\* the call raises ValueError in step st
SynthRaise(st) ==
    /\ s_pc' = "raised"
    /\ s_step' = st
    /\ results' = Append(results, [raised |-> "ValueError", index |-> <<>>,
                                   data |-> [n \in {} |-> <<>>]])

\* lines 50-60: the sample count, the index, the empty data dictionary
SynthBegin ==
    /\ s_pc = "begin"
    /\ n_samples' = params.duration_seconds * params.fs
    /\ time_index' = DateRangeFreq(TruncateToMinute(now), n_samples', params.fs)
    /\ data' = [n \in {} |-> <<>>]
    /\ sensor_i' = 0
    /\ s_pc' = IF Len(params.sensor_names) = 0 THEN "return" ELSE "modal"
    /\ s_step' = "begin"
    /\ UNCHANGED <<params, now, call, tape, tape_pos, signal, before, outlier,
                   edge, results>>
    /\ UNCHANGED <<runVars, indexVars>>

\* lines 64-85: modal contributions, trend and noise of the current sensor
ModalTrendNoise ==
    /\ s_pc = "modal"
    /\ \E d \in {[pattern |-> p] : p \in Patterns} :
         /\ Drawn(d)
         /\ signal' = [k \in 1..n_samples |-> Wave(d.pattern, sensor_i, k)]
    /\ s_pc' = "outlier"
    /\ s_step' = "modal"
    /\ UNCHANGED <<params, now, call, n_samples, time_index, sensor_i, before,
                   data, outlier, edge, results>>
    /\ UNCHANGED <<runVars, indexVars>>

\* lines 87-95: the transient anomaly
OutlierInjection ==
    /\ s_pc = "outlier"
    /\ \E d \in OutlierDraws(n_samples) :
         /\ Drawn(d)
         /\ before' = signal
         /\ IF ~d.triggered
            THEN /\ signal' = signal
                 /\ outlier' = [triggered |-> FALSE]
                 /\ s_pc' = "edge" /\ s_step' = "outlier"
                 /\ UNCHANGED results
            ELSE IF d.failed
            THEN /\ SynthRaise("outlier")
                 /\ outlier' = [triggered |-> TRUE]
                 /\ UNCHANGED signal
            ELSE LET outlier_end == OutlierEnd(d.start, d.duration, n_samples)
                 IN  /\ signal' = InPlaceAdd(signal, d.start, outlier_end,
                                             <<d.shift>>).sig
                     /\ outlier' = [triggered |-> TRUE, outlier_start |-> d.start,
                                    outlier_end |-> outlier_end,
                                    shift_amplitude |-> d.shift]
                     /\ s_pc' = "edge" /\ s_step' = "outlier"
                     /\ UNCHANGED results
    /\ UNCHANGED <<params, now, call, n_samples, time_index, sensor_i, data, edge>>
    /\ UNCHANGED <<runVars, indexVars>>

\* lines 97-109: the edge artifacts
EdgeArtifact ==
    /\ s_pc = "edge"
    /\ \E d \in EdgeDraws :
         /\ Drawn(d)
         /\ before' = signal
         /\ edge' = d
         /\ IF ~d.triggered
            THEN /\ signal' = signal
                 /\ s_pc' = "center" /\ s_step' = "edge"
                 /\ UNCHANGED results
            ELSE IF EdgeApply(signal, d).ok
            THEN /\ signal' = EdgeApply(signal, d).sig
                 /\ s_pc' = "center" /\ s_step' = "edge"
                 /\ UNCHANGED results
            ELSE /\ SynthRaise("edge")
                 /\ UNCHANGED signal
    /\ UNCHANGED <<params, now, call, n_samples, time_index, sensor_i, data, outlier>>
    /\ UNCHANGED <<runVars, indexVars>>

\* lines 111-115: re-centering, data[sensor] = signal, next sensor
Recenter ==
    /\ s_pc = "center"
    /\ \E d \in {[target_mean |-> t] : t \in TargetMeans} :
         /\ Drawn(d)
         /\ signal' = Recentered(signal, d.target_mean)
         /\ data' = (params.sensor_names[sensor_i + 1] :> signal') @@ data
    /\ sensor_i' = sensor_i + 1
    /\ s_pc' = IF sensor_i + 1 < Len(params.sensor_names) THEN "modal" ELSE "return"
    /\ s_step' = "center"
    /\ UNCHANGED <<params, now, call, n_samples, time_index, before, outlier,
                   edge, results>>
    /\ UNCHANGED <<runVars, indexVars>>

\* lines 117-120: the DataFrame of data over time_index is returned
SynthReturn ==
    /\ s_pc = "return"
    /\ results' = Append(results, [raised |-> "none", index |-> time_index,
                                   data |-> data])
    /\ s_pc' = "returned"
    /\ s_step' = "return"
    /\ UNCHANGED <<params, now, call, tape, tape_pos, n_samples, time_index,
                   sensor_i, signal, before, data, outlier, edge>>
    /\ UNCHANGED <<runVars, indexVars>>

\* the caller seeds the random source as before the first call and calls
\* again with the same arguments; the wall clock has not gone back
SecondCall ==
    /\ s_pc \in {"returned", "raised"}
    /\ call = 1
    /\ call' = 2
    /\ \E t \in Clocks : t >= now /\ now' = t
    /\ tape_pos' = 1
    /\ s_pc' = "begin"
    /\ s_step' = "none"
    /\ n_samples' = 0
    /\ time_index' = <<>>
    /\ sensor_i' = 0
    /\ signal' = <<>>
    /\ before' = <<>>
    /\ data' = [n \in {} |-> <<>>]
    /\ outlier' = [triggered |-> FALSE]
    /\ edge' = [triggered |-> FALSE]
    /\ UNCHANGED <<params, tape, results>>
    /\ UNCHANGED <<runVars, indexVars>>

SynthNext ==
    \/ SynthBegin
    \/ ModalTrendNoise
    \/ OutlierInjection
    \/ EdgeArtifact
    \/ Recenter
    \/ SynthReturn

SpecSynth == SynthInit(SynthParams, {32430}) /\ [][SynthNext]_vars

TwiceNext ==
    \/ SynthBegin
    \/ ModalTrendNoise
    \/ OutlierInjection
    \/ EdgeArtifact
    \/ Recenter
    \/ SynthReturn
    \/ SecondCall

SpecTwice == SynthInit(TwiceParams, Clocks) /\ [][TwiceNext]_vars

-----------------------------------------------------------------------------
(* Properties of the synthesizer (specifications SpecSynth and SpecTwice). *)

\* the positions at which sig2 differs from sig1
Changed(sig1, sig2) == {k \in 1..Len(sig1) : sig2[k] # sig1[k]}

\* the transient-anomaly step has just been taken and was triggered
OutlierTaken == s_step = "outlier" /\ outlier.triggered

\* C8 as stated, for sample counts N that are multiples of 100 (as every
\* count 1500 x fs of the assembler is): a triggered transient-anomaly step
\* shifts an index range [outlier_start, outlier_end) whose length is between
\* 1% and 5% of N and which lies inside the window from 0.1 N to 0.8 N; no
\* other sample changes.
C8_AsStated ==
    (OutlierTaken /\ n_samples % 100 = 0)
    => /\ s_pc # "raised"
       /\ 100 * (outlier.outlier_end - outlier.outlier_start) >= n_samples
       /\ 100 * (outlier.outlier_end - outlier.outlier_start) <= 5 * n_samples
       /\ 10 * outlier.outlier_start >= n_samples
       /\ 10 * outlier.outlier_end <= 8 * n_samples
       /\ \A k \in Changed(before, signal) :
            k > outlier.outlier_start /\ k <= outlier.outlier_end

\* C8 amended: a triggered transient-anomaly step raises ValueError when
\* N < 20; otherwise it adds one constant to the index range
\* [outlier_start, outlier_end), where outlier_start is in
\* [floor(0.1 N), floor(0.8 N)), the length is in [floor(0.01 N), floor(0.05 N))
\* and outlier_end stays below 0.85 N; no other sample changes.
C8_OutlierRange ==
    OutlierTaken
    => IF n_samples < 20
       THEN s_pc = "raised"
       ELSE /\ s_pc # "raised"
            /\ LET a   == outlier.outlier_start
                   b   == outlier.outlier_end
                   len == b - a
               IN  /\ a >= n_samples \div 10 /\ a < (8 * n_samples) \div 10
                   /\ len >= n_samples \div 100 /\ len < (5 * n_samples) \div 100
                   /\ b <= n_samples /\ 100 * b < 85 * n_samples
                   /\ \A k \in 1..n_samples :
                        signal[k] = before[k]
                          + (IF k > a /\ k <= b THEN outlier.shift_amplitude ELSE 0)

\* C8 witness: a triggered step whose range reaches beyond 0.8 N.
C8_Witness ==
    /\ OutlierTaken /\ s_pc = "edge" /\ n_samples = 100
    /\ 10 * outlier.outlier_end > 8 * n_samples
    /\ Changed(before, signal) # {}

\* the edge-artifact step has just been taken and was triggered
EdgeTaken == s_step = "edge" /\ edge.triggered

\* C9: a triggered edge-artifact step completes for every N and every
\* combination of the start-edge and end-edge draws, and changes no sample
\* outside the first int(0.02 N) and the last int(0.02 N) positions.
C9_EdgeStepFrame ==
    EdgeTaken
    => /\ s_pc # "raised"
       /\ \A k \in Changed(before, signal) :
            k <= (2 * n_samples) \div 100
              \/ k > n_samples - (2 * n_samples) \div 100

\* C6: two calls with the same arguments and the random source seeded alike
\* end alike: the same table, index included, or the same exception.
C6_SameResultTwice == Len(results) = 2 => results[1] = results[2]

-----------------------------------------------------------------------------
(* The index of one segment, timestamp by timestamp (specification         *)
(* SpecIndex): lines 177-199 of generate_sample_dataset.  A timestamp is   *)
(* seconds since the start of the year plus nanoseconds.                   *)

\* largest segment number tried
MaxIndexSegments == 8

IndexInputs == [segment : 1..MaxIndexSegments, fs : SynthRates, now : Clocks]

\* seconds from the start of dt's year to dt
SecondsOf(dt) == MinuteOfYear(dt) * 60 + dt.s

\* floor(j * span_sec * 10^9 / div) nanoseconds, as seconds and nanoseconds,
\* by long division in base 1000
SpanPoint(span_sec, j, div) ==
    LET whole == (j * span_sec) \div div
        r0    == (j * span_sec) % div
        a1    == (r0 * 1000) \div div
        r1    == (r0 * 1000) % div
        a2    == (r1 * 1000) \div div
        r2    == (r1 * 1000) % div
        a3    == (r2 * 1000) \div div
    IN  Timestamp(whole, a1 * 1000000 + a2 * 1000 + a3)

\* DateRangeSpan with the end point left out: periods steps instead of periods - 1
DateRangeSpanOpenEnd(start_sec, end_sec, periods) ==
    [k \in 1..periods |->
        LET p == SpanPoint(end_sec - start_sec, k - 1, periods)
        IN  Timestamp(start_sec + p.sec, p.ns)]

\* pd.date_range(start=start, end=end, periods=periods): np.linspace over the
\* nanoseconds from start to end, both ends included, cast to int64
DateRangeSpan(start_sec, end_sec, periods) ==
    [k \in 1..periods |->
        IF periods = 1 THEN Timestamp(start_sec, 0)
        ELSE LET p == SpanPoint(end_sec - start_sec, k - 1, periods - 1)
             IN  Timestamp(start_sec + p.sec, p.ns)]

IndexInit ==
    /\ RunIdle /\ SynthIdle
    /\ idx_pc = "synthesize"
    /\ idx_input \in IndexInputs
    /\ idx_index = <<>>

\* lines 188-195: the synthesizer returns a table of int(25 * 60 * fs) rows
\* indexed from the current minute at the period 1/fs
IndexSynthesize ==
    /\ idx_pc = "synthesize"
    /\ idx_index' = DateRangeFreq(TruncateToMinute(idx_input.now),
                                  NSamples(SegmentMinutes, idx_input.fs),
                                  idx_input.fs)
    /\ idx_pc' = "retime"
    /\ UNCHANGED idx_input
    /\ UNCHANGED <<runVars, synthVars>>

\* lines 197-199: the index is replaced by one from start_time to end_time
IndexRetime ==
    /\ idx_pc = "retime"
    /\ idx_index' = DateRangeSpan(SecondsOf(BaseTime(idx_input.segment)),
                                  SecondsOf(EndTime(BaseTime(idx_input.segment))),
                                  Len(idx_index))
    /\ idx_pc' = "done"
    /\ UNCHANGED idx_input
    /\ UNCHANGED <<runVars, synthVars>>

IndexNext ==
    \/ IndexSynthesize
    \/ IndexRetime

SpecIndex == IndexInit /\ [][IndexNext]_vars

-----------------------------------------------------------------------------
(* Properties of the segment index (specification SpecIndex).              *)

\* nanoseconds from timestamp a to timestamp b
GapNs(a, b) == (b.sec - a.sec) * 1000000000 + (b.ns - a.ns)

\* the boundaries of segment seg, in seconds since 2024-01-01 00:00:00
SegmentStartSec(seg) == 32400 + (seg - 1) * 1800
SegmentEndSec(seg) == SegmentStartSec(seg) + 1500

\* the index has N = 1500 x fs entries, the first at the segment start, the
\* last at the segment end, each a well-formed timestamp
IndexSpansSegment ==
    /\ Len(idx_index) = 1500 * idx_input.fs
    /\ idx_index[1] = Timestamp(SegmentStartSec(idx_input.segment), 0)
    /\ idx_index[Len(idx_index)] = Timestamp(SegmentEndSec(idx_input.segment), 0)
    /\ \A k \in 1..Len(idx_index) :
         idx_index[k].ns >= 0 /\ idx_index[k].ns < 1000000000

\* C10 as stated: the re-timestamped index keeps the N = 1500 x fs entries of
\* the synthesizer, runs from the segment start to the segment end, is
\* strictly increasing and has adjacent timestamps exactly 1/fs apart.
C10_AsStated ==
    idx_pc = "done"
    => /\ IndexSpansSegment
       /\ \A k \in 1..(Len(idx_index) - 1) :
            /\ GapNs(idx_index[k], idx_index[k + 1]) > 0
            /\ GapNs(idx_index[k], idx_index[k + 1]) * idx_input.fs = 1000000000

\* C10 amended: the re-timestamped index keeps the N = 1500 x fs entries of
\* the synthesizer, runs from the segment start to the segment end and is
\* strictly increasing; its N - 1 gaps divide the 25 minutes evenly (any two
\* differ by at most one nanosecond), so each is longer than 1/fs.
C10_IndexSpansSegmentEvenly ==
    idx_pc = "done"
    => /\ IndexSpansSegment
       /\ \E g \in {GapNs(idx_index[1], idx_index[2]) - 1,
                    GapNs(idx_index[1], idx_index[2])} :
            \A k \in 1..(Len(idx_index) - 1) :
              GapNs(idx_index[k], idx_index[k + 1]) \in {g, g + 1}
       /\ \A k \in 1..(Len(idx_index) - 1) :
            GapNs(idx_index[k], idx_index[k + 1]) > 1000000000 \div idx_input.fs

\* C10 witness: the index of segment 2 at 2 Hz has been re-timestamped; the
\* synthesizer had indexed it from the minute of the wall clock.
C10_Witness ==
    /\ idx_pc = "done" /\ idx_input.segment = 2 /\ idx_input.fs = 2
    /\ Len(idx_index) = 3000
    /\ idx_index[1].sec = 34200 /\ idx_index[3000].sec = 35700

====
